---------------------------- MODULE Spec2Model ----------------------------
(***************************************************************************)
(* A model of the Nahara colour library (@nahara/color): the ICC binary    *)
(* field codec (datatype.ts), the ICC header reader (header.ts), the ICC   *)
(* profile dispatcher (profile.ts of icc/), the curve engine (curve.ts),   *)
(* the linear algebra helpers (math.ts) and the RGB profile (rgb.ts).      *)
(*                                                                         *)
(* Numbers.  A JavaScript number that the code treats as a real is a       *)
(* normalised fraction <<n, d>> (d > 0, gcd(n, d) = 1); arithmetic is      *)
(* exact, so rounding errors of IEEE doubles are outside this model.  The  *)
(* result of a JavaScript bitwise operator is a signed 32-bit integer and  *)
(* is an integer of the model (TLC's integers are 32-bit as well); the     *)
(* operators And32, Or32, Shl32, Sar32 and Not32 compute in two's          *)
(* complement exactly as &, |, <<, >> and ~ do.  A hexadecimal literal of  *)
(* the source above 0x7FFFFFFF appears as its ToInt32 image.               *)
(***************************************************************************)
EXTENDS Integers, Sequences, FiniteSets, TLC

VARIABLES
  buffer,    \* the Uint8Array the codec reads and writes
  nwrites,   \* number of setter calls made on buffer so far
  lastSet,   \* the last setter call: [fn, offset, value], or NoCall
  lastGet,   \* the last reader call since the last write: [fn, offset, ret]
  tagCall,   \* the last call of the tag table reader or of a tag data parser
  curveObj,  \* the curve the curve engine is called with
  applied,   \* the last call of apply: [x, ret]
  inverted,  \* the last call of applyInverse: [y, ret, chained]
  profile,   \* an RgbProfile instance: [colorSpace, serializable, conversion]
  rgbCall,   \* the last call of a method of profile
  other,     \* a second RgbProfile instance, the target or source of to
  icc,       \* an IccProfileInfo: [header, tags]
  made,      \* the outcome of profileOf(icc): a profile or a thrown error
  iccCall    \* the last call of a method of the profile made

codecVars == <<buffer, nwrites, lastSet, lastGet, tagCall>>
curveVars == <<curveObj, applied, inverted>>
rgbVars == <<profile, rgbCall, other>>
iccVars == <<icc, made, iccCall>>

vars == <<buffer, nwrites, lastSet, lastGet, tagCall, curveObj, applied,
          inverted, profile, rgbCall, other, icc, made, iccCall>>

NoCall == [fn |-> "none"]

-----------------------------------------------------------------------------
(* Exact fractions.                                                        *)

RECURSIVE GCD(_, _)
GCD(a, b) == IF b = 0 THEN a ELSE GCD(b, a % b)

Abs(a) == IF a < 0 THEN -a ELSE a

\* NaN, and the value undefined of a read past the end of an array: neither
\* is a fraction, and arithmetic on either gives NaN.
NaN == <<0, 0>>
Undefined == <<1, 0>>

IsFinite(p) == p[2] # 0

\* n / d in lowest terms; a division by zero is not a fraction.
Rat(n, d) ==
  LET g == GCD(Abs(n), Abs(d))
  IN  IF d = 0 THEN NaN
      ELSE IF d < 0 THEN <<-(n \div g), -(d \div g)>>
      ELSE <<n \div g, d \div g>>

RInt(n) == <<n, 1>>

RMul(p, q) ==
  LET g1 == GCD(Abs(p[1]), q[2])
      g2 == GCD(Abs(q[1]), p[2])
  IN  IF ~IsFinite(p) \/ ~IsFinite(q) THEN NaN
      ELSE IF p[1] = 0 \/ q[1] = 0 THEN <<0, 1>>
      ELSE <<(p[1] \div g1) * (q[1] \div g2), (p[2] \div g2) * (q[2] \div g1)>>

RAdd(p, q) ==
  LET g == GCD(p[2], q[2])
  IN  IF ~IsFinite(p) \/ ~IsFinite(q) THEN NaN
      ELSE Rat(p[1] * (q[2] \div g) + q[1] * (p[2] \div g), (p[2] \div g) * q[2])

RNeg(p) == IF IsFinite(p) THEN <<-p[1], p[2]>> ELSE NaN

RSub(p, q) == RAdd(p, RNeg(q))

\* 1 / p; the profiles of this model have invertible matrices, so that 1 / 0
\* (Infinity) is not distinguished from NaN.
RInv(p) ==
  IF ~IsFinite(p) \/ p[1] = 0 THEN NaN
  ELSE IF p[1] < 0 THEN <<-p[2], -p[1]>> ELSE <<p[2], p[1]>>

RDiv(p, q) == RMul(p, RInv(q))

RFloor(p) == p[1] \div p[2]

\* p - floor(p), in [0, 1)
RFrac(p) == <<p[1] % p[2], p[2]>>

\* Compared by integer parts first, so that no product leaves 32 bits.
\* Every comparison with NaN or undefined is false.
RLt(p, q) ==
  /\ IsFinite(p)
  /\ IsFinite(q)
  /\ LET g == GCD(p[2], q[2])
     IN  \/ RFloor(p) < RFloor(q)
         \/ /\ RFloor(p) = RFloor(q)
            /\ RFrac(p)[1] * (q[2] \div g) < RFrac(q)[1] * (p[2] \div g)

RLeq(p, q) == IsFinite(p) /\ IsFinite(q) /\ (p = q \/ RLt(p, q))

\* Math.round: the nearest integer, a half rounded up.
RRound(p) == (2 * p[1] + p[2]) \div (2 * p[2])

RECURSIVE IPow(_, _)
IPow(b, e) == IF e = 0 THEN 1 ELSE b * IPow(b, e - 1)

\* b ^ e where that is at most cap, and cap + 1 otherwise
RECURSIVE PowCap(_, _, _)
PowCap(b, e, cap) ==
  IF e = 0 THEN 1
  ELSE LET p == PowCap(b, e - 1, cap)
       IN  IF b > 0 /\ p > cap \div b THEN cap + 1 ELSE p * b

\* a >= 0 has an exact q-th root among the integers
RECURSIVE RootFrom(_, _, _)
RootFrom(a, q, r) == IF PowCap(r, q, a) >= a THEN r ELSE RootFrom(a, q, r + 1)
Root(a, q) == IF q = 1 THEN a ELSE RootFrom(a, q, 0)
HasRoot(a, q) == PowCap(Root(a, q), q, a) = a

\* x ** g for a fraction g > 0.  The power of a negative base to a fractional
\* exponent is NaN.  Where the power of a fraction is irrational the model
\* has no value for it: Exact(x, g) says that it has one.
Exact(x, g) ==
  \/ ~IsFinite(x)
  \/ x[1] < 0 /\ g[2] # 1
  \/ x[1] >= 0 /\ HasRoot(x[1], g[2]) /\ HasRoot(x[2], g[2])

RPow(x, g) ==
  IF ~IsFinite(x) THEN NaN
  ELSE IF x[1] < 0 /\ g[2] # 1 THEN NaN
  ELSE IF x[1] < 0 THEN <<IPow(x[1], g[1]), IPow(x[2], g[1])>>
  ELSE <<IPow(Root(x[1], g[2]), g[1]), IPow(Root(x[2], g[2]), g[1])>>

-----------------------------------------------------------------------------
(* JavaScript's 32-bit integer operators.                                  *)

MinInt32 == -2147483647 - 1

\* The low 31 bits of a signed 32-bit integer; the sign bit is handled apart.
Low31(a) == IF a >= 0 THEN a ELSE a - MinInt32

RECURSIVE AndBits(_, _)
AndBits(a, b) ==
  IF a = 0 \/ b = 0 THEN 0
  ELSE (a % 2) * (b % 2) + 2 * AndBits(a \div 2, b \div 2)

RECURSIVE OrBits(_, _)
OrBits(a, b) ==
  IF a = 0 THEN b
  ELSE IF b = 0 THEN a
  ELSE (IF a % 2 = 1 \/ b % 2 = 1 THEN 1 ELSE 0) + 2 * OrBits(a \div 2, b \div 2)

\* a & b
And32(a, b) ==
  AndBits(Low31(a), Low31(b)) + (IF a < 0 /\ b < 0 THEN MinInt32 ELSE 0)

\* a | b
Or32(a, b) ==
  OrBits(Low31(a), Low31(b)) + (IF a < 0 \/ b < 0 THEN MinInt32 ELSE 0)

\* ~a
Not32(a) == IF a >= 0 THEN (-a) - 1 ELSE -(a + 1)

\* a << n, for 2 <= n <= 30: the low 32 - n bits of a move up, the rest drop
Shl32(a, n) ==
  LET m   == 2 ^ (32 - n)
      low == a % m
  IN  IF 2 * low >= m THEN (low - m) * (2 ^ n) ELSE low * (2 ^ n)

\* a >> n: the arithmetic shift keeps the sign
Sar32(a, n) == a \div (2 ^ n)

\* An element stored into a Uint8Array is taken modulo 256.
ToUint8(v) == v % 256

\* buffer[i] as an operand of <<, | or &: a read past the end is undefined,
\* which these operators coerce to 0.
ByteAt(buf, i) == IF i + 1 \in DOMAIN buf THEN buf[i + 1] ELSE 0


-----------------------------------------------------------------------------
(* datatype.ts: the binary field codec.  A buffer is the sequence of its   *)
(* bytes: the byte at offset i of the Uint8Array is buf[i + 1].            *)

getUint16(buf, offset) ==
  Or32(Shl32(ByteAt(buf, offset + 0), 8), ByteAt(buf, offset + 1))

\* << and | work on signed 32-bit integers, so the result is a signed one.
getUint32(buf, offset) ==
  Or32(Or32(Or32(Shl32(ByteAt(buf, offset + 0), 24),
                 Shl32(ByteAt(buf, offset + 1), 16)),
            Shl32(ByteAt(buf, offset + 2), 8)),
       ByteAt(buf, offset + 3))

\* value is the ToInt32 image of the number passed: & is its only use.
\* 0xFF000000 is -16777216 as a signed 32-bit integer.
setUint32(buf, value, offset) ==
  [buf EXCEPT
     ![offset + 0 + 1] = ToUint8(Sar32(And32(value, -16777216), 24)),
     ![offset + 1 + 1] = ToUint8(Sar32(And32(value, 16711680), 16)),
     ![offset + 2 + 1] = ToUint8(Sar32(And32(value, 65280), 8)),
     ![offset + 3 + 1] = ToUint8(And32(value, 255))]

\* BigInt arithmetic is exact; the 64-bit value is kept as its four base-65536
\* digits, most significant first.
getUint64(buf, offset) ==
  [k \in 1..4 |->
     ByteAt(buf, offset + 2 * (k - 1)) * 256 + ByteAt(buf, offset + 2 * (k - 1) + 1)]

getS15Fixed16_NoSign(buf, offset) ==
  LET raw  == getUint32(buf, offset)
      int  == Sar32(And32(raw, 2147418112), 16)
      frac == And32(raw, 65535)
  IN  RAdd(RInt(int), Rat(frac, 65536))

\* 0x80000000 is MinInt32, 0x7FFF0000 is 2147418112.
getS15Fixed16(buf, offset) ==
  LET raw  == getUint32(buf, offset)
      neg  == And32(raw, MinInt32) # 0
      int  == Sar32(And32(raw, 2147418112), 16)
      frac == And32(raw, 65535)
  IN  RAdd(RInt(IF neg THEN Not32(And32(Not32(int), 32767)) ELSE int),
           Rat(frac, 65536))

setS15Fixed16(buf, value, offset) ==
  LET sint == RFloor(value)
      frac == RFloor(RMul(RSub(value, RInt(sint)), RInt(65536)))
      raw  == Or32(Shl32(And32(sint, 65535), 16), frac)
  IN  setUint32(buf, raw, offset)

\* 0xFFFF0000 is -65536 as a signed 32-bit integer.
getU16Fixed16(buf, offset) ==
  LET raw  == getUint32(buf, offset)
      int  == Sar32(And32(raw, -65536), 16)
      frac == And32(raw, 65535)
  IN  RAdd(RInt(int), Rat(frac, 65536))

setU16Fixed16(buf, value, offset) ==
  LET uint == And32(RFloor(value), 65535)
      frac == RFloor(RMul(RSub(value, RInt(uint)), RInt(65536)))
      raw  == Or32(Shl32(uint, 16), frac)
  IN  setUint32(buf, raw, offset)

\* new Date(year, month - 1, day, hours, minutes, seconds): the six arguments.
getDatetime(buf, offset) ==
  <<getUint16(buf, offset + 0), getUint16(buf, offset + 2) - 1,
    getUint16(buf, offset + 4), getUint16(buf, offset + 6),
    getUint16(buf, offset + 8), getUint16(buf, offset + 10)>>

getXyz(buf, offset) ==
  [x |-> getS15Fixed16(buf, offset + 0),
   y |-> getS15Fixed16(buf, offset + 4),
   z |-> getS15Fixed16(buf, offset + 8)]

\* A signature is the sequence of its character codes; subarray stops at the
\* end of the buffer.
getSignature(buf, offset) ==
  [k \in 1..Cardinality({i \in offset..(offset + 3) : i + 1 \in DOMAIN buf}) |->
     buf[offset + k]]

setSignature(buf, value, offset) ==
  [i \in DOMAIN buf |->
     IF i - offset \in DOMAIN value THEN ToUint8(value[i - offset]) ELSE buf[i]]


-----------------------------------------------------------------------------
(* header.ts: the ICC header reader.                                       *)

getHeader(buf, offset) ==
  LET versionMinorPatch == ByteAt(buf, offset + 9)
  IN  [profileSize        |-> getUint32(buf, offset + 0),
       preferredCmmType   |-> getSignature(buf, offset + 4),
       version            |-> <<ByteAt(buf, offset + 8),
                                And32(versionMinorPatch, 15),
                                Sar32(And32(versionMinorPatch, 240), 4)>>,
       profileClass       |-> getSignature(buf, 12),
       profileSpace       |-> getSignature(buf, 16),
       pcsSpace           |-> getSignature(buf, 20),
       creationDate       |-> getDatetime(buf, 24),
       creationPlatform   |-> getSignature(buf, 40),
       profileFlags       |-> getUint32(buf, 44),
       deviceManufacturer |-> getSignature(buf, 48),
       deviceModel        |-> getSignature(buf, 52),
       deviceAttributes   |-> getUint64(buf, 56),
       renderingIntent    |-> getUint32(buf, 64),
       pcsWhitePoint      |-> getXyz(buf, 68)]

-----------------------------------------------------------------------------
(* math.ts: 3x3 matrices and the clamp.                                    *)

invertMat(m) ==
  LET det ==
        RAdd(RSub(RMul(m.m00, RSub(RMul(m.m11, m.m22), RMul(m.m21, m.m12))),
                  RMul(m.m01, RSub(RMul(m.m10, m.m22), RMul(m.m12, m.m20)))),
             RMul(m.m02, RSub(RMul(m.m10, m.m21), RMul(m.m11, m.m20))))
      invdet == RInv(det)
  IN  [m00 |-> RMul(RSub(RMul(m.m11, m.m22), RMul(m.m12, m.m21)), invdet),
       m01 |-> RMul(RNeg(RSub(RMul(m.m01, m.m22), RMul(m.m02, m.m21))), invdet),
       m02 |-> RMul(RSub(RMul(m.m01, m.m12), RMul(m.m02, m.m11)), invdet),
       m10 |-> RMul(RNeg(RSub(RMul(m.m10, m.m22), RMul(m.m12, m.m20))), invdet),
       m11 |-> RMul(RSub(RMul(m.m00, m.m22), RMul(m.m02, m.m20)), invdet),
       m12 |-> RMul(RNeg(RSub(RMul(m.m00, m.m12), RMul(m.m02, m.m10))), invdet),
       m20 |-> RMul(RSub(RMul(m.m10, m.m21), RMul(m.m11, m.m20)), invdet),
       m21 |-> RMul(RNeg(RSub(RMul(m.m00, m.m21), RMul(m.m01, m.m20))), invdet),
       m22 |-> RMul(RSub(RMul(m.m00, m.m11), RMul(m.m01, m.m10)), invdet)]

matMulMV(m, x, y, z) ==
  [x |-> RAdd(RAdd(RMul(m.m00, x), RMul(m.m01, y)), RMul(m.m02, z)),
   y |-> RAdd(RAdd(RMul(m.m10, x), RMul(m.m11, y)), RMul(m.m12, z)),
   z |-> RAdd(RAdd(RMul(m.m20, x), RMul(m.m21, y)), RMul(m.m22, z))]

clamp01_NoUpper(x) == IF RLt(x, RInt(0)) THEN RInt(0) ELSE x

clamp01(x) ==
  LET lo == IF RLt(x, RInt(0)) THEN RInt(0) ELSE x
  IN  IF RLt(RInt(1), lo) THEN RInt(1) ELSE lo

-----------------------------------------------------------------------------
(* curve.ts: the curve engine.  A curve is [type |-> "identity"],          *)
(* [type |-> "gamma", gamma |-> g] or [type |-> "lut", values |-> seq];    *)
(* values[i + 1] is element i of the array.                                *)

\* The index apply reads: Math.round((values.length - 1) * x).
lutIndex(curve, x) == RRound(RMul(RInt(Len(curve.values) - 1), x))

apply(curve, x) ==
  IF curve.type = "identity" THEN x
  ELSE IF curve.type = "gamma" THEN RPow(x, curve.gamma)
  ELSE IF IsFinite(x) /\ lutIndex(curve, x) + 1 \in DOMAIN curve.values
       THEN curve.values[lutIndex(curve, x) + 1]
  ELSE Undefined

\* The loop of binarySearch, from the bounds low and high on.
RECURSIVE binarySearchFrom(_, _, _, _)
binarySearchFrom(array, value, low, high) ==
  IF low <= high
  THEN LET mid == Sar32(low + high, 1)
       IN  IF RLt(array[mid + 1], value)
             THEN binarySearchFrom(array, value, mid + 1, high)
           ELSE IF RLt(value, array[mid + 1])
             THEN binarySearchFrom(array, value, low, mid - 1)
           ELSE mid
  ELSE -(low + 1)

\* A search that takes the table to be in descending order.
RECURSIVE binarySearchDescendingFrom(_, _, _, _)
binarySearchDescendingFrom(array, value, low, high) ==
  IF low <= high
  THEN LET mid == Sar32(low + high, 1)
       IN  IF RLt(value, array[mid + 1])
             THEN binarySearchDescendingFrom(array, value, mid + 1, high)
           ELSE IF RLt(array[mid + 1], value)
             THEN binarySearchDescendingFrom(array, value, low, mid - 1)
           ELSE mid
  ELSE -(low + 1)

binarySearch_Descending(array, value) ==
  binarySearchDescendingFrom(array, value, 0, Len(array) - 1)

binarySearch(array, value) == binarySearchFrom(array, value, 0, Len(array) - 1)

\* An inverse that decodes a miss as -search, one past the insertion index.
applyInverse_MissOffByOne(curve, y) ==
  IF curve.type = "identity" THEN y
  ELSE IF curve.type = "gamma" THEN RPow(y, RInv(curve.gamma))
  ELSE LET search == binarySearch(curve.values, y)
           insert == IF search >= 0 THEN search ELSE -search
       IN  Rat(insert, Len(curve.values) - 1)

applyInverse(curve, y) ==
  IF curve.type = "identity" THEN y
  ELSE IF curve.type = "gamma" THEN RPow(y, RInv(curve.gamma))
  ELSE LET search == binarySearch(curve.values, y)
           insert == IF search >= 0 THEN search ELSE -search - 1
       IN  Rat(insert, Len(curve.values) - 1)


-----------------------------------------------------------------------------
(* rgb.ts: conversion matrices and the RGB profile.                        *)

calcMatrices(r, g, b, w) ==
  LET Rxyz == [x |-> r.x, y |-> r.y, z |-> RSub(RSub(RInt(1), r.x), r.y)]
      Gxyz == [x |-> g.x, y |-> g.y, z |-> RSub(RSub(RInt(1), g.x), g.y)]
      Bxyz == [x |-> b.x, y |-> b.y, z |-> RSub(RSub(RInt(1), b.x), b.y)]
      sum  == matMulMV(invertMat([m00 |-> Rxyz.x, m01 |-> Gxyz.x, m02 |-> Bxyz.x,
                                  m10 |-> Rxyz.y, m11 |-> Gxyz.y, m12 |-> Bxyz.y,
                                  m20 |-> Rxyz.z, m21 |-> Gxyz.z, m22 |-> Bxyz.z]),
                       w.x, w.y, w.z)
      M == [m00 |-> RMul(Rxyz.x, sum.x), m01 |-> RMul(Gxyz.x, sum.y),
            m02 |-> RMul(Bxyz.x, sum.z),
            m10 |-> RMul(Rxyz.y, sum.x), m11 |-> RMul(Gxyz.y, sum.y),
            m12 |-> RMul(Bxyz.y, sum.z),
            m20 |-> RMul(Rxyz.z, sum.x), m21 |-> RMul(Gxyz.z, sum.y),
            m22 |-> RMul(Bxyz.z, sum.z)]
  IN  [xyz |-> M, rgb |-> invertMat(M)]

calcConversionInfo(r, g, b, w) ==
  LET sdrWhitePoint ==
        [x |-> w.chromaticity.x,
         y |-> w.chromaticity.y,
         z |-> RSub(RSub(RInt(1), w.chromaticity.x), w.chromaticity.y)]
      hdrWhitePoint ==
        [x |-> RMul(sdrWhitePoint.x, w.luminance),
         y |-> RMul(sdrWhitePoint.y, w.luminance),
         z |-> RMul(sdrWhitePoint.z, w.luminance)]
  IN  [sdr |-> calcMatrices(r, g, b, sdrWhitePoint),
       hdr |-> calcMatrices(r, g, b, hdrWhitePoint)]

\* new RgbProfile(serializable)
RgbProfile(serializable) ==
  [colorSpace   |-> "rgb",
   serializable |-> serializable,
   conversion   |-> calcConversionInfo(serializable.primaries.r.chromaticity,
                                       serializable.primaries.g.chromaticity,
                                       serializable.primaries.b.chromaticity,
                                       serializable.whitePoint)]

\* The arguments toXyz passes to applyInverse, channel by channel.
toXyzCurveArgs(color) ==
  [r |-> clamp01(color.r), g |-> clamp01(color.g), b |-> clamp01(color.b)]

toXyz(this, color, hdr) ==
  LET a == toXyzCurveArgs(color)
      r == applyInverse(this.serializable.primaries.r.trc, a.r)
      g == applyInverse(this.serializable.primaries.g.trc, a.g)
      b == applyInverse(this.serializable.primaries.b.trc, a.b)
      matrices == IF hdr THEN this.conversion.hdr ELSE this.conversion.sdr
  IN  matMulMV(matrices.xyz, r, g, b)

\* The arguments fromXyz passes to apply, channel by channel.
fromXyzCurveArgs(this, xyz, hdr) ==
  LET matrices == IF hdr THEN this.conversion.hdr ELSE this.conversion.sdr
      lin == matMulMV(matrices.rgb, xyz.x, xyz.y, xyz.z)
  IN  [r |-> clamp01(lin.x), g |-> clamp01(lin.y), b |-> clamp01(lin.z)]

fromXyz(this, xyz, hdr) ==
  LET a == fromXyzCurveArgs(this, xyz, hdr)
  IN  [r |-> apply(this.serializable.primaries.r.trc, a.r),
       g |-> apply(this.serializable.primaries.g.trc, a.g),
       b |-> apply(this.serializable.primaries.b.trc, a.b)]

\* this.to(profile, color, hdr), for a target that is an RgbProfile
to(this, target, color, hdr) == fromXyz(target, toXyz(this, color, hdr), hdr)

-----------------------------------------------------------------------------
(* The codec and the header reader at work on one buffer.                  *)

\* Bounds of the model.
MaxWrites == 2
EmbedOffset == 4

\* The tag table starts right after the 128-byte header.
HeaderSize == 128

BufLen == HeaderSize + EmbedOffset + 1

\* An unsigned 32-bit argument is written as its two 16-bit halves, since
\* the values from 2^31 on are beyond the integers of the checker.
U32(hi, lo) == [hi |-> hi, lo |-> lo]

ToInt32(u) == (IF u.hi >= 32768 THEN u.hi - 65536 ELSE u.hi) * 65536 + u.lo

U32Samples ==
  {U32(0, 1), U32(258, 772), U32(32767, 65535), U32(32768, 0), U32(65535, 65535)}

S15Samples ==
  {Rat(5, 4), Rat(-3, 2), Rat(-1, 65536), RInt(-32768), Rat(2147483647, 65536),
   Rat(1, 3)}

U16Samples == {Rat(3, 2), Rat(65537, 2), RInt(65535)}

RGB_ == <<82, 71, 66, 32>>
GRAY == <<71, 82, 65, 89>>

SigSamples == {RGB_, GRAY}

WordOffsets == {0, 1}
SigOffsets == {16, 16 + EmbedOffset}
Starts == {0, EmbedOffset}

CodecIdle ==
  /\ buffer = <<>>
  /\ nwrites = 0
  /\ lastSet = NoCall
  /\ lastGet = NoCall
  /\ tagCall = NoCall

CurveIdle ==
  /\ curveObj = NoCall
  /\ applied = NoCall
  /\ inverted = NoCall

RgbIdle ==
  /\ profile = NoCall
  /\ rgbCall = NoCall
  /\ other = NoCall

IccIdle ==
  /\ icc = NoCall
  /\ made = NoCall
  /\ iccCall = NoCall

CodecInit ==
  /\ buffer = [i \in 1..BufLen |-> 0]
  /\ nwrites = 0
  /\ lastSet = NoCall
  /\ lastGet = NoCall
  /\ tagCall = NoCall
  /\ CurveIdle
  /\ RgbIdle
  /\ IccIdle

Written(fn, offset, value) ==
  /\ nwrites' = nwrites + 1
  /\ lastSet' = [fn |-> fn, offset |-> offset, value |-> value]
  /\ lastGet' = NoCall

SetUint32 ==
  \E v \in U32Samples, offset \in WordOffsets :
    /\ nwrites < MaxWrites
    /\ buffer' = setUint32(buffer, ToInt32(v), offset)
    /\ UNCHANGED <<tagCall, curveVars, rgbVars, iccVars>>
    /\ Written("setUint32", offset, v)

SetS15Fixed16 ==
  \E v \in S15Samples, offset \in WordOffsets :
    /\ nwrites < MaxWrites
    /\ buffer' = setS15Fixed16(buffer, v, offset)
    /\ UNCHANGED <<tagCall, curveVars, rgbVars, iccVars>>
    /\ Written("setS15Fixed16", offset, v)

SetU16Fixed16 ==
  \E v \in U16Samples, offset \in WordOffsets :
    /\ nwrites < MaxWrites
    /\ buffer' = setU16Fixed16(buffer, v, offset)
    /\ UNCHANGED <<tagCall, curveVars, rgbVars, iccVars>>
    /\ Written("setU16Fixed16", offset, v)

SetSignature ==
  \E v \in SigSamples, offset \in SigOffsets :
    /\ nwrites < MaxWrites
    /\ buffer' = setSignature(buffer, v, offset)
    /\ UNCHANGED <<tagCall, curveVars, rgbVars, iccVars>>
    /\ Written("setSignature", offset, v)

GetUint32 ==
  \E offset \in WordOffsets :
    /\ lastGet' = [fn |-> "getUint32", offset |-> offset, ret |-> getUint32(buffer, offset)]
    /\ UNCHANGED <<buffer, nwrites, lastSet, tagCall, curveVars, rgbVars, iccVars>>

GetS15Fixed16 ==
  \E offset \in WordOffsets :
    /\ lastGet' = [fn |-> "getS15Fixed16", offset |-> offset, ret |-> getS15Fixed16(buffer, offset)]
    /\ UNCHANGED <<buffer, nwrites, lastSet, tagCall, curveVars, rgbVars, iccVars>>

GetU16Fixed16 ==
  \E offset \in WordOffsets :
    /\ lastGet' = [fn |-> "getU16Fixed16", offset |-> offset, ret |-> getU16Fixed16(buffer, offset)]
    /\ UNCHANGED <<buffer, nwrites, lastSet, tagCall, curveVars, rgbVars, iccVars>>

GetHeader ==
  \E start \in Starts :
    /\ lastGet' = [fn |-> "getHeader", offset |-> start,
                   ret |-> getHeader(buffer, start)]
    /\ UNCHANGED <<buffer, nwrites, lastSet, tagCall, curveVars, rgbVars, iccVars>>

CodecNext ==
  \/ SetUint32
  \/ SetS15Fixed16
  \/ SetU16Fixed16
  \/ SetSignature
  \/ GetUint32
  \/ GetS15Fixed16
  \/ GetU16Fixed16
  \/ GetHeader

SpecCodec == CodecInit /\ [][CodecNext]_vars


-----------------------------------------------------------------------------
(* Claims about the codec and the header reader (SpecCodec).               *)

\* The four bytes a reader at offset sees.
Hi16(buf, offset) == buf[offset + 1] * 256 + buf[offset + 2]
Lo16(buf, offset) == buf[offset + 3] * 256 + buf[offset + 4]

\* v is a multiple of 1/65536 with -32768 <= v < 32768.
S15Representable(v) ==
  /\ 65536 % v[2] = 0
  /\ RLeq(RInt(-32768), v)
  /\ RLt(v, RInt(32768))

\* v is a multiple of 1/65536 with 0 <= v < 65536.
U16Representable(v) ==
  /\ 65536 % v[2] = 0
  /\ RLeq(RInt(0), v)
  /\ RLt(v, RInt(65536))

\* lastGet is a call of reader get at the offset the last setter set wrote.
ReadBack(get, set) ==
  /\ lastGet.fn = get
  /\ lastSet.fn = set
  /\ lastGet.offset = lastSet.offset

\* C5: a value that is a multiple of 1/65536 in [-32768, 32768), written by
\* setS15Fixed16 and read by getS15Fixed16 at the same offset, is read back
\* exactly, negative values included.
C5_S15Fixed16RoundTrip ==
  (ReadBack("getS15Fixed16", "setS15Fixed16") /\ S15Representable(lastSet.value))
    => lastGet.ret = lastSet.value

\* C5 witness: a negative value has been written and read back.
C5_Witness ==
  /\ ReadBack("getS15Fixed16", "setS15Fixed16")
  /\ S15Representable(lastSet.value)
  /\ lastSet.value[1] < 0
  /\ lastGet.ret = lastSet.value

\* C6: getUint32 returns the unsigned big-endian value of the four bytes at
\* the offset, a number in [0, 2^32) (never negative), and after setUint32(v)
\* it returns v.  The unsigned value is compared by its 16-bit halves.
C6_GetUint32Unsigned ==
  /\ lastGet.fn = "getUint32" =>
       /\ lastGet.ret >= 0
       /\ lastGet.ret \div 65536 = Hi16(buffer, lastGet.offset)
       /\ lastGet.ret % 65536 = Lo16(buffer, lastGet.offset)
  /\ ReadBack("getUint32", "setUint32") =>
       /\ lastGet.ret >= 0
       /\ lastGet.ret \div 65536 = lastSet.value.hi
       /\ lastGet.ret % 65536 = lastSet.value.lo

\* C7: getU16Fixed16 returns raw/65536 for the unsigned 32-bit word raw at the
\* offset, a number in [0, 65536), and after setU16Fixed16(v), v a multiple of
\* 1/65536 in [0, 65536), it returns v.
C7_GetU16Fixed16Unsigned ==
  /\ lastGet.fn = "getU16Fixed16" =>
       /\ RLeq(RInt(0), lastGet.ret)
       /\ RLt(lastGet.ret, RInt(65536))
       /\ RFloor(lastGet.ret) = Hi16(buffer, lastGet.offset)
       /\ RSub(lastGet.ret, RInt(RFloor(lastGet.ret)))
            = Rat(Lo16(buffer, lastGet.offset), 65536)
  /\ (ReadBack("getU16Fixed16", "setU16Fixed16") /\ U16Representable(lastSet.value))
       => lastGet.ret = lastSet.value

\* The bytes of buf from start on, as a buffer of their own.
Shift(buf, start) == [i \in 1..(Len(buf) - start) |-> buf[i + start]]

\* C2: the header read at a start offset is the header read at offset 0 from
\* the same profile bytes: every field is decoded at start + its offset.
C2_HeaderAtStart ==
  lastGet.fn = "getHeader"
    => lastGet.ret = getHeader(Shift(buffer, lastGet.offset), 0)



-----------------------------------------------------------------------------
(* The curve engine at work on one curve.                                  *)

\* Bounds of the model: the longest table, and the grids of the table values
\* (k / ValueDen) and of the arguments (k / ArgDen).
MaxLut == 4
ValueDen == 4
ArgDen == 4

Levels == {Rat(k, ValueDen) : k \in 0..ValueDen}

\* Every table of 2 to MaxLut values on the grid, in any order.
LutSamples ==
  {[type |-> "lut", values |-> v] :
     v \in UNION {[1..n -> Levels] : n \in 2..MaxLut}}

CurveSamples ==
  LutSamples \cup {[type |-> "identity"], [type |-> "gamma", gamma |-> RInt(2)]}

\* Arguments in [0, 1], and queries that also lie below 0 and above 1.
Args01 == {Rat(k, ArgDen) : k \in 0..ArgDen}
Queries == {Rat(k, ArgDen) : k \in (-1)..(ArgDen + 1)}

\* The model has a value for x ** gamma and for y ** (1 / gamma).
ExactApply(c, x) == c.type = "gamma" => Exact(x, c.gamma)
ExactInverse(c, y) == c.type = "gamma" => Exact(y, RInv(c.gamma))

CurveInit ==
  /\ curveObj \in CurveSamples
  /\ applied = NoCall
  /\ inverted = NoCall
  /\ CodecIdle
  /\ RgbIdle
  /\ IccIdle

\* apply(curve, x)
Apply ==
  \E x \in Args01 :
    /\ ExactApply(curveObj, x)
    /\ applied' = [fn |-> "apply", x |-> x, ret |-> apply(curveObj, x)]
    /\ inverted' = NoCall
    /\ UNCHANGED <<curveObj, codecVars, rgbVars, iccVars>>

\* applyInverse(curve, y)
ApplyInverse ==
  \E y \in Queries :
    /\ ExactInverse(curveObj, y)
    /\ inverted' = [fn |-> "applyInverse", y |-> y,
                    ret |-> applyInverse(curveObj, y), chained |-> FALSE]
    /\ applied' = NoCall
    /\ UNCHANGED <<curveObj, codecVars, rgbVars, iccVars>>

\* applyInverse(curve, apply(curve, x)), the second half
ApplyInverseOfApplied ==
  /\ applied # NoCall
  /\ ExactInverse(curveObj, applied.ret)
  /\ inverted' = [fn |-> "applyInverse", y |-> applied.ret,
                  ret |-> applyInverse(curveObj, applied.ret), chained |-> TRUE]
  /\ UNCHANGED <<curveObj, applied, codecVars, rgbVars, iccVars>>

CurveNext ==
  \/ Apply
  \/ ApplyInverse
  \/ ApplyInverseOfApplied

SpecCurve == CurveInit /\ [][CurveNext]_vars

-----------------------------------------------------------------------------
(* Claims about the curve engine (SpecCurve).                              *)

IsLut(c) == c.type = "lut"

NonDecreasing(v) == \A i \in 1..(Len(v) - 1) : RLeq(v[i], v[i + 1])

StrictlyIncreasing(v) == \A i \in 1..(Len(v) - 1) : RLt(v[i], v[i + 1])

RAbs(p) == IF p[1] < 0 THEN RNeg(p) ELSE p

\* applyInverse(curveObj, apply(curveObj, x)) is within 1 / (n - 1) of x
RoundTripWithinStep ==
  RLeq(RAbs(RSub(inverted.ret, applied.x)), Rat(1, Len(curveObj.values) - 1))

\* C8 as claimed: for a Lut of n >= 2 samples in non-decreasing order,
\* duplicates allowed, and x in [0, 1], applyInverse(c, apply(c, x)) is within
\* 1 / (n - 1) of x; for the identity curve it is x.
C8_RoundTripNonDecreasing ==
  (inverted # NoCall /\ inverted.chained) =>
    /\ (IsLut(curveObj) /\ NonDecreasing(curveObj.values)) => RoundTripWithinStep
    /\ curveObj.type = "identity" => inverted.ret = applied.x

\* C8 as amended: the bound holds for a Lut whose samples are strictly
\* increasing; for the identity curve the round trip is exact.
C8_RoundTripStrictlyIncreasing ==
  (inverted # NoCall /\ inverted.chained) =>
    /\ (IsLut(curveObj) /\ StrictlyIncreasing(curveObj.values))
         => RoundTripWithinStep
    /\ curveObj.type = "identity" => inverted.ret = applied.x

\* C8 witness: a round trip through a strictly increasing table of three or
\* more samples that does not give x back exactly.
C8_Witness ==
  /\ inverted # NoCall
  /\ inverted.chained
  /\ IsLut(curveObj)
  /\ Len(curveObj.values) >= 3
  /\ StrictlyIncreasing(curveObj.values)
  /\ inverted.ret # applied.x

\* C9: on an ascending table, applyInverse(y) is i / (n - 1) for an index i
\* with values[i] = y when there is one, and otherwise k / (n - 1) for k the
\* number of table values strictly below y: never an interpolated value.
C9_InverseIsSearchIndex ==
  (inverted # NoCall /\ IsLut(curveObj) /\ NonDecreasing(curveObj.values)) =>
    LET v == curveObj.values
        n == Len(v)
        hits == {i \in 0..(n - 1) : v[i + 1] = inverted.y}
        k == Cardinality({i \in 0..(n - 1) : RLt(v[i + 1], inverted.y)})
    IN  IF hits # {} THEN \E i \in hits : inverted.ret = Rat(i, n - 1)
        ELSE inverted.ret = Rat(k, n - 1)

\* C9 witness: the table [0, 0.5, 1.0] queried at 0.25, a miss, gives 1/2.
C9_Witness ==
  /\ inverted # NoCall
  /\ curveObj = [type |-> "lut", values |-> <<RInt(0), Rat(1, 2), RInt(1)>>]
  /\ inverted.y = Rat(1, 4)
  /\ inverted.ret = Rat(1, 2)

-----------------------------------------------------------------------------
(* An RgbProfile at work: toXyz and fromXyz on sample colours.             *)

Chroma(x, y) == [x |-> x, y |-> y]

\* The built-in profiles have chromaticities of three and four decimals,
\* whose exact matrices are beyond the integers of the checker.  The samples
\* are profiles of the same shape with short fractions: primaries that span
\* the plane, a white point off the primaries, a luminance of 80 or 48.
ChromaSamples ==
  { [r |-> Chroma(Rat(3, 5), Rat(3, 10)), g |-> Chroma(Rat(3, 10), Rat(3, 5)),
     b |-> Chroma(Rat(1, 5), Rat(1, 10))],
    [r |-> Chroma(Rat(2, 3), Rat(1, 3)), g |-> Chroma(Rat(1, 4), Rat(3, 4)),
     b |-> Chroma(Rat(1, 6), RInt(0))] }

WhiteSamples ==
  { [chromaticity |-> Chroma(Rat(1, 3), Rat(1, 3)), luminance |-> RInt(80)],
    [chromaticity |-> Chroma(Rat(3, 10), Rat(7, 20)), luminance |-> RInt(48)] }

IdentityCurve == [type |-> "identity"]
Gamma2 == [type |-> "gamma", gamma |-> RInt(2)]
Lut3 == [type |-> "lut", values |-> <<RInt(0), Rat(1, 4), RInt(1)>>]

\* The transfer curves of the red, green and blue primaries.
TrcSamples ==
  { <<Gamma2, Gamma2, Gamma2>>,
    <<Lut3, Lut3, Lut3>>,
    <<IdentityCurve, Gamma2, Lut3>> }

RgbProfileInfoSamples ==
  { [primaries |-> [r |-> [chromaticity |-> p.r, trc |-> t[1]],
                    g |-> [chromaticity |-> p.g, trc |-> t[2]],
                    b |-> [chromaticity |-> p.b, trc |-> t[3]]],
     whitePoint |-> w] :
    p \in ChromaSamples, t \in TrcSamples, w \in WhiteSamples }

\* Channel values below 0, inside [0, 1] and above 1.
ChannelSamples == {Rat(-1, 2), Rat(1, 4), RInt(1), Rat(3, 2)}

\* XYZ components, from negative ones to the scale of an absolute white.
XyzSamples == {RInt(-1), Rat(1, 4), RInt(30)}

RgbInit ==
  /\ profile \in {RgbProfile(info) : info \in RgbProfileInfoSamples}
  /\ rgbCall = NoCall
  /\ other = NoCall
  /\ CodecIdle
  /\ CurveIdle
  /\ IccIdle

Trc(this) ==
  [r |-> this.serializable.primaries.r.trc,
   g |-> this.serializable.primaries.g.trc,
   b |-> this.serializable.primaries.b.trc]

\* profile.toXyz({r, g, b}, hdr)
ToXyz ==
  \E r, g, b \in ChannelSamples, hdr \in BOOLEAN :
    LET color == [r |-> r, g |-> g, b |-> b]
        args == toXyzCurveArgs(color)
    IN  /\ \A ch \in {"r", "g", "b"} : ExactInverse(Trc(profile)[ch], args[ch])
        /\ rgbCall' = [fn |-> "toXyz", hdr |-> hdr, input |-> color,
                       args |-> args, ret |-> toXyz(profile, color, hdr)]
        /\ UNCHANGED <<profile, other, codecVars, curveVars, iccVars>>

\* profile.fromXyz({x, y, z}, hdr)
FromXyz ==
  \E x, y, z \in XyzSamples, hdr \in BOOLEAN :
    LET xyz == [x |-> x, y |-> y, z |-> z]
        args == fromXyzCurveArgs(profile, xyz, hdr)
    IN  /\ \A ch \in {"r", "g", "b"} : ExactApply(Trc(profile)[ch], args[ch])
        /\ rgbCall' = [fn |-> "fromXyz", hdr |-> hdr, input |-> xyz,
                       args |-> args, ret |-> fromXyz(profile, xyz, hdr)]
        /\ UNCHANGED <<profile, other, codecVars, curveVars, iccVars>>

RgbNext == ToXyz \/ FromXyz

SpecRgb == RgbInit /\ [][RgbNext]_vars

-----------------------------------------------------------------------------
(* Claims about the RGB profile.                                           *)

White == [r |-> RInt(1), g |-> RInt(1), b |-> RInt(1)]

\* C1: toXyz of the colour (1, 1, 1) has Y = 1 in SDR mode and Y = the white
\* point's luminance in HDR mode, since the SDR matrices come from a white
\* tristimulus with Y = 1 and the HDR matrices from one with Y = luminance.
C1_WhiteLuminance ==
  (rgbCall.fn = "toXyz" /\ rgbCall.input = White) =>
    rgbCall.ret.y = (IF rgbCall.hdr
                       THEN profile.serializable.whitePoint.luminance
                       ELSE RInt(1))

In01(x) == IsFinite(x) /\ RLeq(RInt(0), x) /\ RLeq(x, RInt(1))

\* C10: every argument toXyz passes to applyInverse and fromXyz passes to
\* apply lies in [0, 1], whatever the input, so that apply reads a table
\* curve at an index inside 0..n-1.
C10_CurveArgsClamped ==
  rgbCall # NoCall =>
    \A ch \in {"r", "g", "b"} :
      /\ In01(rgbCall.args[ch])
      /\ (rgbCall.fn = "fromXyz" /\ IsLut(Trc(profile)[ch])) =>
           lutIndex(Trc(profile)[ch], rgbCall.args[ch])
             \in 0..(Len(Trc(profile)[ch].values) - 1)

\* C10 witness: fromXyz whose linear red channel is above 1 and whose linear
\* blue channel is below 0, on a profile with a table curve.
C10_Witness ==
  /\ rgbCall.fn = "fromXyz"
  /\ IsLut(Trc(profile).r)
  /\ LET m == IF rgbCall.hdr THEN profile.conversion.hdr.rgb
                             ELSE profile.conversion.sdr.rgb
         lin == matMulMV(m, rgbCall.input.x, rgbCall.input.y, rgbCall.input.z)
     IN  /\ RLt(RInt(1), lin.x)
         /\ RLt(lin.z, RInt(0))
         /\ rgbCall.args.r = RInt(1)
         /\ rgbCall.args.b = RInt(0)

-----------------------------------------------------------------------------
(* icc/profile.ts: profiles made from parsed ICC data.                     *)
(* An IccProfileInfo is [header |-> [profileSpace |-> signature],          *)
(* tags |-> table]; the table gives for each signature a tag               *)
(* [signature, data] or UndefinedObj where the table has no such key, and  *)
(* a tag's data is UndefinedObj where getTagTable found no parser.  The    *)
(* element n of a Uint16Array is written [u16 |-> n], which keeps the      *)
(* values of curve data and of XYZ data comparable.  A call ends in a      *)
(* value or in a thrown error [kind |-> "throw", error, message].          *)

UndefinedObj == [type |-> "undefined"]

Throw(error, message) == [kind |-> "throw", error |-> error, message |-> message]

\* Reading a property of undefined.  The wording of the message is the
\* engine's; this is the one of V8.
TypeError(property) ==
  Throw("TypeError",
        <<"Cannot read properties of undefined (reading '", property, "')">>)

IsThrow(o) == o.kind = "throw"

\* A curveOf that reads the one sample as its high byte only.
curveOf_NoFraction(curv) ==
  IF curv = UndefinedObj THEN TypeError("values")
  ELSE IF curv.type = "chrm" THEN TypeError("length")
  ELSE IF Len(curv.values) = 0
    THEN [kind |-> "value", value |-> [type |-> "identity"]]
  ELSE IF Len(curv.values) = 1
    THEN LET raw == IF curv.type = "curv" THEN curv.values[1].u16 ELSE 0
         IN  [kind |-> "value",
              value |-> [type |-> "gamma",
                         gamma |-> RInt(Sar32(And32(raw, 65280), 8))]]
  ELSE [kind |-> "value",
        value |-> [type |-> "lut",
                   values |-> [i \in 1..Len(curv.values) |->
                                 IF curv.type = "curv"
                                   THEN Rat(curv.values[i].u16, 65535)
                                   ELSE NaN]]]

\* curveOf(curv); the caller passes tag.data unchecked, so that curv may be
\* undefined or data of another type.
curveOf(curv) ==
  IF curv = UndefinedObj THEN TypeError("values")
  ELSE IF curv.type = "chrm" THEN TypeError("length")
  ELSE IF Len(curv.values) = 0
    THEN [kind |-> "value", value |-> [type |-> "identity"]]
  ELSE IF Len(curv.values) = 1
    THEN LET raw == IF curv.type = "curv" THEN curv.values[1].u16 ELSE 0
             int == Sar32(And32(raw, 65280), 8)
             frac == And32(raw, 255)
             gamma == RAdd(RInt(int), Rat(frac, 256))
         IN  [kind |-> "value", value |-> [type |-> "gamma", gamma |-> gamma]]
  ELSE [kind |-> "value",
        value |-> [type |-> "lut",
                   values |-> [i \in 1..Len(curv.values) |->
                                 IF curv.type = "curv"
                                   THEN Rat(curv.values[i].u16, 65535)
                                   ELSE NaN]]]

\* tag!.data.values[0]
firstValue(tag) ==
  IF tag = UndefinedObj THEN TypeError("data")
  ELSE IF tag.data = UndefinedObj THEN TypeError("values")
  ELSE IF tag.data.type = "chrm" THEN TypeError("0")
  ELSE IF Len(tag.data.values) = 0
    THEN [kind |-> "value", value |-> UndefinedObj]
  ELSE IF tag.data.type = "XYZ "
    THEN [kind |-> "value", value |-> tag.data.values[1]]
  \* an element of a Uint16Array: a number, whose x, y and z are undefined
  ELSE [kind |-> "value",
        value |-> [x |-> Undefined, y |-> Undefined, z |-> Undefined]]

\* tag!.data, the argument of curveOf
dataOf(tag) ==
  IF tag = UndefinedObj THEN TypeError("data")
  ELSE [kind |-> "value", value |-> tag.data]

\* The first thrown error among the outcomes os, which holds at least one.
RECURSIVE FirstThrow(_, _)
FirstThrow(os, i) == IF IsThrow(os[i]) THEN os[i] ELSE FirstThrow(os, i + 1)

\* new IccRgbProfile(icc)
IccRgbProfile(icc_) ==
  LET rXYZ == firstValue(icc_.tags.rXYZ)
      gXYZ == firstValue(icc_.tags.gXYZ)
      bXYZ == firstValue(icc_.tags.bXYZ)
      field(v) == IF IsThrow(v) THEN v
                  ELSE IF v.value = UndefinedObj THEN TypeError("x")
                  ELSE v
      rData == dataOf(icc_.tags.rTRC)
      gData == dataOf(icc_.tags.gTRC)
      bData == dataOf(icc_.tags.bTRC)
      rTRC == IF IsThrow(rData) THEN rData ELSE curveOf(rData.value)
      gTRC == IF IsThrow(gData) THEN gData ELSE curveOf(gData.value)
      bTRC == IF IsThrow(bData) THEN bData ELSE curveOf(bData.value)
      steps == <<rXYZ, gXYZ, bXYZ, field(rXYZ), field(gXYZ), field(bXYZ),
                 rTRC, gTRC, bTRC>>
      xyzMatrix ==
        [m00 |-> rXYZ.value.x, m01 |-> gXYZ.value.x, m02 |-> bXYZ.value.x,
         m10 |-> rXYZ.value.y, m11 |-> gXYZ.value.y, m12 |-> bXYZ.value.y,
         m20 |-> rXYZ.value.z, m21 |-> gXYZ.value.z, m22 |-> bXYZ.value.z]
  IN  IF \E i \in 1..Len(steps) : IsThrow(steps[i])
        THEN FirstThrow(steps, 1)
      ELSE [kind |-> "profile",
            colorSpace |-> "rgb",
            serializable |-> icc_,
            xyzMatrix |-> xyzMatrix,
            rgbMatrix |-> invertMat(xyzMatrix),
            trc |-> <<rTRC.value, gTRC.value, bTRC.value>>]

\* A dispatch without the default branch: every space is taken for RGB.
profileOf_NoDefault(icc_) == IccRgbProfile(icc_)

profileOf(icc_) ==
  IF icc_.header.profileSpace = RGB_ THEN IccRgbProfile(icc_)
  ELSE Throw("Error",
             <<"Unsupported color space: ", icc_.header.profileSpace>>)

\* The arguments toXyz passes to apply: the channels as they are given.
IccRgbProfile_toXyzCurveArgs(color) == <<color[1], color[2], color[3]>>

\* IccRgbProfile.toXyz([r, g, b])
IccRgbProfile_toXyz(this, color) ==
  matMulMV(this.xyzMatrix,
           apply(this.trc[1], color[1]),
           apply(this.trc[2], color[2]),
           apply(this.trc[3], color[3]))

\* The arguments fromXyz passes to applyInverse: the linear channels.
IccRgbProfile_fromXyzCurveArgs(this, xyz) ==
  LET lin == matMulMV(this.rgbMatrix, xyz.x, xyz.y, xyz.z)
  IN  <<lin.x, lin.y, lin.z>>

\* IccRgbProfile.fromXyz({x, y, z}): the curve of every channel is this.trc[0].
IccRgbProfile_fromXyz(this, xyz) ==
  LET a == IccRgbProfile_fromXyzCurveArgs(this, xyz)
  IN  <<applyInverse(this.trc[1], a[1]),
        applyInverse(this.trc[1], a[2]),
        applyInverse(this.trc[1], a[3])>>

-----------------------------------------------------------------------------
(* profileOf at work on sample profile infos.                              *)

\* Bound of the model: the number of tags of a table that vary.
MaxVaried == 2

XyzSlots == {"rXYZ", "gXYZ", "bXYZ"}
TrcSlots == {"rTRC", "gTRC", "bTRC"}
Slots == XyzSlots \cup TrcSlots

XyzData(values) == [type |-> "XYZ ", values |-> values]
CurvData(values) ==
  [type |-> "curv", values |-> [i \in 1..Len(values) |-> [u16 |-> values[i]]]]
ChrmData == [type |-> "chrm", colorantType |-> 1, channels |-> <<>>]

Tag(signature, data) == [signature |-> signature, data |-> data]

Xyz(x, y, z) == [x |-> x, y |-> y, z |-> z]

\* A well-formed table: three colorants that span the space, a gamma of 2,
\* a table curve and an identity curve.
GoodTags ==
  [rXYZ |-> Tag("rXYZ", XyzData(<<Xyz(Rat(1, 2), Rat(1, 4), RInt(0))>>)),
   gXYZ |-> Tag("gXYZ", XyzData(<<Xyz(Rat(1, 4), Rat(1, 2), Rat(1, 4))>>)),
   bXYZ |-> Tag("bXYZ", XyzData(<<Xyz(Rat(1, 4), Rat(1, 4), RInt(1))>>)),
   rTRC |-> Tag("rTRC", CurvData(<<512>>)),
   gTRC |-> Tag("gTRC", CurvData(<<0, 16384, 65535>>)),
   bTRC |-> Tag("bTRC", CurvData(<<>>))]

\* What a key of the table may hold: nothing, a tag of an unknown type, or
\* a tag with the data of any of the three parsers.
DataSamples ==
  { UndefinedObj, ChrmData,
    XyzData(<<>>), XyzData(<<Xyz(RInt(1), RInt(1), RInt(1))>>),
    CurvData(<<>>), CurvData(<<563>>), CurvData(<<0, 65535>>),
    CurvData(<<8960>>), CurvData(<<0>>) }

TagSamples(slot) == {UndefinedObj} \cup {Tag(slot, d) : d \in DataSamples}

TagTables ==
  UNION { { [slot \in Slots |-> IF slot \in D THEN f[slot] ELSE GoodTags[slot]] :
            f \in { g \in [D -> {UndefinedObj} \cup
                                  {Tag(slot, d) : slot \in D, d \in DataSamples}] :
                    \A slot \in D : g[slot] \in TagSamples(slot) } } :
          D \in {E \in SUBSET Slots : Cardinality(E) <= MaxVaried} }

CMYK == <<67, 77, 89, 75>>
LowerRgb == <<114, 103, 98, 32>>
SpaceSamples == {RGB_, GRAY, CMYK, LowerRgb}

IccInit ==
  /\ icc \in { [header |-> [profileSpace |-> space], tags |-> tags] :
               space \in SpaceSamples, tags \in TagTables }
  /\ made = NoCall
  /\ iccCall = NoCall
  /\ CodecIdle
  /\ CurveIdle
  /\ RgbIdle

\* profileOf(icc)
ProfileOf ==
  /\ made' = profileOf(icc)
  /\ UNCHANGED <<icc, iccCall, codecVars, curveVars, rgbVars>>

IccNext == ProfileOf

SpecIcc == IccInit /\ [][IccNext]_vars

-----------------------------------------------------------------------------
(* Claims about profileOf and the IccRgbProfile constructor.               *)

Unsupported(space) == Throw("Error", <<"Unsupported color space: ", space>>)

\* C3, as stated: profileOf returns a profile when profileSpace is "RGB ",
\* and for every other space it fails with the unsupported-color-space
\* error that names the space.
C3_ProfileOfDispatch ==
  made # NoCall =>
    IF icc.header.profileSpace = RGB_ THEN made.kind = "profile"
    ELSE made = Unsupported(icc.header.profileSpace)

\* The tags of the table the constructor can read: present, with data that
\* has values, and for a colorant at least one value.
Readable(tags, slot) ==
  /\ tags[slot] # UndefinedObj
  /\ tags[slot].data # UndefinedObj
  /\ tags[slot].data.type # "chrm"
  /\ slot \in XyzSlots => Len(tags[slot].data.values) >= 1

\* C3, amended: for the space "RGB " profileOf gives what the constructor
\* of IccRgbProfile gives, a profile where the six required tags are
\* readable and the constructor's TypeError otherwise, and never the
\* unsupported-color-space error; for every other space it fails with the
\* unsupported-color-space error that names the space, and returns no
\* profile.
C3_ProfileOfDispatchToConstructor ==
  made # NoCall =>
    IF icc.header.profileSpace = RGB_
      THEN IF \A slot \in Slots : Readable(icc.tags, slot)
             THEN made.kind = "profile" /\ made.serializable = icc
             ELSE IsThrow(made) /\ made.error = "TypeError"
    ELSE made = Unsupported(icc.header.profileSpace)

\* C3 witness: an RGB profile info with a tag missing, on which profileOf
\* has thrown the constructor's error.
C3_Witness ==
  /\ made # NoCall
  /\ icc.header.profileSpace = RGB_
  /\ icc.tags.gTRC = UndefinedObj
  /\ IsThrow(made)
  /\ made.error = "TypeError"

Missing(tags) ==
  {slot \in Slots : tags[slot] = UndefinedObj \/ tags[slot].data = UndefinedObj}

\* C4: where one of the six required tags is absent or has no decoded
\* data, the construction fails with an error that is no dereference of
\* undefined and whose message names a missing tag.
C4_MissingTagError ==
  (made # NoCall /\ icc.header.profileSpace = RGB_ /\ Missing(icc.tags) # {}) =>
    /\ IsThrow(made)
    /\ made.error # "TypeError"
    /\ \E slot \in Missing(icc.tags), i \in 1..Len(made.message) :
         made.message[i] = slot

\* The curve the profile holds for a TRC tag, and the samples it came from.
TrcIndex == [rTRC |-> 1, gTRC |-> 2, bTRC |-> 3]
Samples(slot) == [i \in 1..Len(icc.tags[slot].data.values) |->
                    icc.tags[slot].data.values[i].u16]
FromCurv(slot) ==
  /\ made # NoCall
  /\ made.kind = "profile"
  /\ icc.tags[slot].data.type = "curv"

\* C11: curveOf maps a decoded curv tag by its sample count: no sample gives
\* the identity curve, one sample v the gamma curve with
\* gamma = floor(v / 256) + (v mod 256) / 256, two or more samples the table
\* of the same length whose i-th value is sample i divided by 65535.
C11_CurveOfBySampleCount ==
  \A slot \in TrcSlots :
    FromCurv(slot) =>
      LET v == Samples(slot)
          curve == made.trc[TrcIndex[slot]]
      IN  IF Len(v) = 0 THEN curve = [type |-> "identity"]
          ELSE IF Len(v) = 1
            THEN curve = [type |-> "gamma",
                          gamma |-> RAdd(RInt(v[1] \div 256), Rat(v[1] % 256, 256))]
          ELSE curve = [type |-> "lut",
                        values |-> [i \in 1..Len(v) |-> Rat(v[i], 65535)]]

\* C11 witness: a profile built from the one sample 0x2300 (gamma 35), the one
\* sample 0x0233 (gamma 2 + 51/256) and a table of three samples.
C11_Witness ==
  /\ FromCurv("rTRC") /\ FromCurv("gTRC") /\ FromCurv("bTRC")
  /\ Samples("rTRC") = <<8960>>
  /\ made.trc[1] = [type |-> "gamma", gamma |-> RInt(35)]
  /\ Samples("bTRC") = <<563>>
  /\ made.trc[3] = [type |-> "gamma", gamma |-> Rat(563, 256)]
  /\ Len(Samples("gTRC")) = 3
  /\ made.trc[2].type = "lut"

-----------------------------------------------------------------------------
(* tag.ts: the tag table reader and the tag data parsers.  The table is a  *)
(* function from signatures (sequences of character codes) to tags         *)
(* [signature, offset, size, data], data being UndefinedObj where the      *)
(* property is not set.                                                    *)

XYZ_ == <<88, 89, 90, 32>>
curv == <<99, 117, 114, 118>>
chrm == <<99, 104, 114, 109>>

\* The values of xyzBase at which the loop of the "XYZ " parser reads a
\* triple, from xyzBase on, end being offset + size.
RECURSIVE xyzBases(_, _)
xyzBases(xyzBase, end) ==
  IF xyzBase < end THEN <<xyzBase>> \o xyzBases(xyzBase + 12, end) ELSE <<>>

\* tagDataParsers["XYZ "](buffer, offset, size)
tagDataParsers_XYZ(buf, offset, size) ==
  LET bases == xyzBases(offset + 8, offset + size)
  IN  [kind |-> "value",
       value |-> XyzData([i \in 1..Len(bases) |-> getXyz(buf, bases[i])])]

\* tagDataParsers["curv"](buffer, offset); new Uint16Array(count) throws for
\* a negative count.
tagDataParsers_curv(buf, offset) ==
  LET count == getUint32(buf, offset + 8)
  IN  IF count < 0 THEN Throw("RangeError", <<"Invalid typed array length: ", count>>)
      ELSE [kind |-> "value",
            value |-> CurvData([i \in 1..count |->
                                  getUint16(buf, offset + 12 + (i - 1) * 2)])]

\* tagDataParsers["chrm"](buffer, offset)
tagDataParsers_chrm(buf, offset) ==
  LET channelCount == getUint16(buf, offset + 8)
      colorantType == getUint16(buf, offset + 10)
  IN  [kind |-> "value",
       value |-> [type |-> "chrm",
                  colorantType |-> colorantType,
                  channels |-> [i \in 1..channelCount |->
                                  [x |-> getU16Fixed16(buf, offset + 12 + (i - 1) * 8),
                                   y |-> getU16Fixed16(buf, offset + 16 + (i - 1) * 8)]]]]

\* The parser registered for a type signature, applied; HasParser says that
\* there is one.
HasParser(typeSignature) == typeSignature \in {XYZ_, curv, chrm}

parse(typeSignature, buf, offset, size) ==
  IF typeSignature = XYZ_ THEN tagDataParsers_XYZ(buf, offset, size)
  ELSE IF typeSignature = curv THEN tagDataParsers_curv(buf, offset)
  ELSE tagDataParsers_chrm(buf, offset)

\* table[signature] = tag
Put(table, signature, tag) ==
  [k \in DOMAIN table \cup {signature} |-> IF k = signature THEN tag ELSE table[k]]

\* The loop of getTagTable from entry i on.
RECURSIVE tagTableFrom(_, _, _, _, _, _)
tagTableFrom(buf, start, offset, count, i, table) ==
  IF i < count
  THEN LET base == start + offset + 4 + i * 12
           signature == getSignature(buf, base + 0)
           tagOffset == getUint32(buf, base + 4)
           tagSize == getUint32(buf, base + 8)
           tag == [signature |-> signature, offset |-> tagOffset,
                   size |-> tagSize, data |-> UndefinedObj]
           typeSignature == getSignature(buf, start + tagOffset)
           data == parse(typeSignature, buf, start + tagOffset, tagSize)
       IN  IF ~HasParser(typeSignature)
             THEN tagTableFrom(buf, start, offset, count, i + 1,
                               Put(table, signature, tag))
           ELSE IF IsThrow(data) THEN data
           ELSE tagTableFrom(buf, start, offset, count, i + 1,
                             Put(table, signature, [tag EXCEPT !.data = data.value]))
  ELSE [kind |-> "value", value |-> table]

\* A reader that leaves out the last entry.
getTagTable_SkipsLast(buf, start, offset) ==
  LET count == getUint32(buf, start + offset + 0)
  IN  tagTableFrom(buf, start, offset, count - 1, 0, <<>>)

getTagTable(buf, start, offset) ==
  LET count == getUint32(buf, start + offset + 0)
  IN  tagTableFrom(buf, start, offset, count, 0, <<>>)

-----------------------------------------------------------------------------
(* The tag table reader and the "XYZ " parser at work on sample buffers.   *)

\* Bound of the model: the number of tags of a sample profile.
MaxTags == 2

Be16(n) == <<(n \div 256) % 256, n % 256>>
Be32(n) == <<(n \div 16777216) % 256, (n \div 65536) % 256,
             (n \div 256) % 256, n % 256>>
Zeros(n) == [i \in 1..n |-> 0]

RECURSIVE Concat(_)
Concat(ss) == IF ss = <<>> THEN <<>> ELSE Head(ss) \o Concat(Tail(ss))

\* The bytes of tag data: the type signature, four reserved bytes, the body.
XyzBlock(n) == XYZ_ \o Zeros(4) \o Concat([i \in 1..n |-> Be32(65536 * i) \o Be32(32768) \o Be32(1)])
CurvBlock(values) ==
  curv \o Zeros(4) \o Be32(Len(values)) \o Concat([i \in 1..Len(values) |-> Be16(values[i])])
ChrmBlock(n) ==
  chrm \o Zeros(4) \o Be16(n) \o Be16(1) \o Concat([i \in 1..n |-> Be32(16384 * i) \o Be32(32768)])
DescBlock == <<100, 101, 115, 99>> \o Zeros(4) \o <<65, 66>>

Sig_rXYZ == <<114, 88, 89, 90>>
Sig_wtpt == <<119, 116, 112, 116>>
Sig_rTRC == <<114, 84, 82, 67>>
Sig_chrm == chrm
Sig_desc == <<100, 101, 115, 99>>

EntrySamples ==
  { [signature |-> Sig_rXYZ, block |-> XyzBlock(1)],
    [signature |-> Sig_wtpt, block |-> XyzBlock(2)],
    [signature |-> Sig_rTRC, block |-> CurvBlock(<<0, 65535>>)],
    [signature |-> Sig_chrm, block |-> ChrmBlock(1)],
    [signature |-> Sig_desc, block |-> DescBlock] }

EntrySeqs == UNION {[1..n -> EntrySamples] : n \in 0..MaxTags}

\* Where a sample profile lies in its buffer (start), and its tag table in
\* the profile (offset).
Placements == {[start |-> 0, offset |-> 4], [start |-> 3, offset |-> 0]}

\* The buffer of a profile with the given tags: the count (plus extra, for a
\* count that declares more entries than there are), the entries, the tag
\* data; cut bytes are missing at the end.
Build(placement, entries, extra, cut) ==
  LET n == Len(entries)
      first == placement.offset + 4 + 12 * n
      at(i) == first + Len(Concat([j \in 1..(i - 1) |-> entries[j].block]))
      whole ==
        Zeros(placement.start) \o Zeros(placement.offset) \o Be32(n + extra)
          \o Concat([i \in 1..n |-> entries[i].signature \o Be32(at(i))
                                      \o Be32(Len(entries[i].block))])
          \o Concat([i \in 1..n |-> entries[i].block])
  IN  SubSeq(whole, 1, Len(whole) - cut)

BufferSamples ==
  { Build(p, e, extra, cut) :
      p \in Placements, e \in EntrySeqs, extra \in {0, 1}, cut \in {0, 3} }

TagInit ==
  /\ buffer \in BufferSamples
  /\ nwrites = 0
  /\ lastSet = NoCall
  /\ lastGet = NoCall
  /\ tagCall = NoCall
  /\ CurveIdle
  /\ RgbIdle
  /\ IccIdle

\* getTagTable(buffer, start, offset), for the sample placements in any
\* pairing.  A call that finds a count beyond the sample profiles' (the
\* loop then runs that many times, over bytes that are not there) is left
\* out.
GetTagTable ==
  \E q, r \in Placements :
    LET p == [start |-> q.start, offset |-> r.offset] IN
    /\ getUint32(buffer, p.start + p.offset) <= MaxTags + 1
    /\ tagCall' = [fn |-> "getTagTable", start |-> p.start, offset |-> p.offset,
                   ret |-> getTagTable(buffer, p.start, p.offset)]
    /\ UNCHANGED <<buffer, nwrites, lastSet, lastGet, curveVars, rgbVars, iccVars>>

\* The sizes a tag may declare: the prefix alone, whole triples, and sizes
\* that end inside a triple.
XyzSizes == {8, 9, 19, 20, 21, 32}
XyzOffsets == {0, 5}

\* The bytes getXyz reads at base: three fields of four bytes.
XyzReads(bases) == UNION {bases[i]..(bases[i] + 11) : i \in 1..Len(bases)}

\* tagDataParsers["XYZ "](buffer, offset, size)
ParseXyz ==
  \E offset \in XyzOffsets, size \in XyzSizes :
    /\ tagCall' = [fn |-> "XYZ ", offset |-> offset, size |-> size,
                   ret |-> tagDataParsers_XYZ(buffer, offset, size),
                   reads |-> XyzReads(xyzBases(offset + 8, offset + size))]
    /\ UNCHANGED <<buffer, nwrites, lastSet, lastGet, curveVars, rgbVars, iccVars>>

TagNext == GetTagTable \/ ParseXyz

SpecTag == TagInit /\ [][TagNext]_vars

-----------------------------------------------------------------------------
(* Claims about the tag table reader and the "XYZ " parser.                *)

\* The n bytes from position lo on are bytes of the buffer.
InBuffer(buf, lo, n) == lo >= 0 /\ lo + n <= Len(buf)

\* The unsigned word at pos is 65536 or more, which is beyond every sample
\* buffer; below that it is its low half.
Big(buf, pos) == Hi16(buf, pos) > 0

\* Entry i of the tag table of the profile at start, the table at offset.
EntryBase(start, offset, i) == start + offset + 4 + i * 12
EntrySignature(buf, start, offset, i) ==
  SubSeq(buf, EntryBase(start, offset, i) + 1, EntryBase(start, offset, i) + 4)
EntryOffset(buf, start, offset, i) == Lo16(buf, EntryBase(start, offset, i) + 4)
EntrySize(buf, start, offset, i) == Lo16(buf, EntryBase(start, offset, i) + 8)
EntryType(buf, start, offset, i) ==
  SubSeq(buf, start + EntryOffset(buf, start, offset, i) + 1,
         start + EntryOffset(buf, start, offset, i) + 4)

\* The bytes the tag data of entry i needs: the declared size, the type
\* signature, and for curv and chrm data the elements that are counted.
DataPastEnd(buf, start, offset, i) ==
  LET base == EntryBase(start, offset, i)
      at == start + EntryOffset(buf, start, offset, i)
  IN  \/ Big(buf, base + 4)
      \/ Big(buf, base + 8)
      \/ ~InBuffer(buf, at, 4)
      \/ ~InBuffer(buf, at, EntrySize(buf, start, offset, i))
      \/ /\ EntryType(buf, start, offset, i) = curv
         /\ \/ ~InBuffer(buf, at, 12)
            \/ Big(buf, at + 8)
            \/ ~InBuffer(buf, at, 12 + 2 * Lo16(buf, at + 8))
      \/ /\ EntryType(buf, start, offset, i) = chrm
         /\ \/ ~InBuffer(buf, at, 12)
            \/ ~InBuffer(buf, at, 12 + 8 * (buf[at + 9] * 256 + buf[at + 10]))

\* The call getTagTable(buf, start, offset) needs bytes at or past the end
\* of buf: for the count, for the entries it declares, or for a tag's data.
PastEnd(buf, start, offset) ==
  \/ ~InBuffer(buf, start + offset, 4)
  \/ Big(buf, start + offset)
  \/ ~InBuffer(buf, start + offset + 4, 12 * Lo16(buf, start + offset))
  \/ \E i \in 0..(Lo16(buf, start + offset) - 1) :
       DataPastEnd(buf, start, offset, i)

\* C12: getTagTable fails with an error where the declared tag count, a
\* tag's declared offset and size, or the element count of curv or chrm
\* data need bytes at or past the end of the buffer.
C12_TagTableOutOfBoundsFails ==
  (tagCall.fn = "getTagTable" /\ PastEnd(buffer, tagCall.start, tagCall.offset))
    => IsThrow(tagCall.ret)

\* A buffer is well-formed for a call where nothing lies past its end and no
\* two entries have the same signature.
WellFormed(buf, start, offset) ==
  /\ ~PastEnd(buf, start, offset)
  /\ \A i, j \in 0..(Lo16(buf, start + offset) - 1) :
       EntrySignature(buf, start, offset, i) = EntrySignature(buf, start, offset, j)
         => i = j

TypeName(typeSignature) ==
  IF typeSignature = XYZ_ THEN "XYZ "
  ELSE IF typeSignature = curv THEN "curv"
  ELSE "chrm"

\* C13: for a well-formed buffer the keys of the table are the signatures of
\* the first count entries; each tag has the signature, offset and size of
\* its entry, and has data exactly where the type signature at
\* start + offset of the tag is "XYZ ", "curv" or "chrm", the type of the
\* data being that signature.
C13_TagTableMapping ==
  (tagCall.fn = "getTagTable" /\ WellFormed(buffer, tagCall.start, tagCall.offset)) =>
    LET start == tagCall.start
        offset == tagCall.offset
        count == Lo16(buffer, start + offset)
        table == tagCall.ret.value
    IN  /\ ~IsThrow(tagCall.ret)
        /\ DOMAIN table = {EntrySignature(buffer, start, offset, i) : i \in 0..(count - 1)}
        /\ \A i \in 0..(count - 1) :
             LET tag == table[EntrySignature(buffer, start, offset, i)]
                 type == EntryType(buffer, start, offset, i)
             IN  /\ tag.signature = EntrySignature(buffer, start, offset, i)
                 /\ tag.offset = EntryOffset(buffer, start, offset, i)
                 /\ tag.size = EntrySize(buffer, start, offset, i)
                 /\ (tag.data # UndefinedObj) <=> (type \in {XYZ_, curv, chrm})
                 /\ tag.data # UndefinedObj => tag.data.type = TypeName(type)

\* C13 witness: a well-formed profile of two tags, one with "XYZ " data of
\* two triples and one of a type without parser.
C13_Witness ==
  /\ tagCall.fn = "getTagTable"
  /\ WellFormed(buffer, tagCall.start, tagCall.offset)
  /\ DOMAIN tagCall.ret.value = {Sig_wtpt, Sig_desc}
  /\ Len(tagCall.ret.value[Sig_wtpt].data.values) = 2
  /\ tagCall.ret.value[Sig_desc].data = UndefinedObj

\* C17: for a size of 8 or more the "XYZ " parser returns
\* floor((size - 8) / 12) triples, and every byte it reads lies in
\* offset + 8 .. offset + size - 1.
C17_XyzParserWithinSize ==
  (tagCall.fn = "XYZ " /\ tagCall.size >= 8) =>
    /\ Len(tagCall.ret.value.values) = (tagCall.size - 8) \div 12
    /\ tagCall.reads \subseteq (tagCall.offset + 8)..(tagCall.offset + tagCall.size - 1)

-----------------------------------------------------------------------------
(* An ICC-derived RGB profile at work: toXyz and fromXyz on sample colours.*)

CurvSamples ==
  { CurvData(<<>>), CurvData(<<512>>), CurvData(<<768>>),
    CurvData(<<0, 65535>>), CurvData(<<0, 16384, 65535>>) }

\* Profile infos with the colorants of GoodTags and any three curves.
IccRgbSamples ==
  { [header |-> [profileSpace |-> RGB_],
     tags |-> [GoodTags EXCEPT !.rTRC = Tag("rTRC", t[1]),
                               !.gTRC = Tag("gTRC", t[2]),
                               !.bTRC = Tag("bTRC", t[3])]] :
    t \in CurvSamples \X CurvSamples \X CurvSamples }

\* Colours inside [0, 1] and out of it.
IccColorSamples ==
  { <<Rat(1, 4), Rat(1, 4), Rat(1, 4)>>, <<RInt(1), RInt(1), RInt(1)>>,
    <<RInt(0), RInt(1), Rat(1, 4)>>, <<Rat(3, 2), RInt(0), Rat(-1, 2)>>,
    <<Rat(-1, 2), Rat(3, 2), RInt(1)>> }

\* XYZ values of colours inside the gamut (of (1/4, 1/4, 1/4), of white) and
\* out of it.
IccXyzSamples ==
  { Xyz(Rat(1, 4), Rat(1, 4), Rat(5, 16)), Xyz(RInt(1), RInt(1), Rat(5, 4)),
    Xyz(RInt(0), Rat(1, 2), RInt(1)), Xyz(RInt(2), RInt(-1), RInt(0)) }

IccUseInit ==
  /\ icc \in IccRgbSamples
  /\ made = profileOf(icc)
  /\ iccCall = NoCall
  /\ CodecIdle
  /\ CurveIdle
  /\ RgbIdle

\* made.toXyz(color)
IccToXyz ==
  \E color \in IccColorSamples :
    /\ made.kind = "profile"
    /\ \A i \in 1..3 : ExactApply(made.trc[i], color[i])
    /\ iccCall' = [fn |-> "toXyz", input |-> color,
                   args |-> IccRgbProfile_toXyzCurveArgs(color),
                   ret |-> IccRgbProfile_toXyz(made, color)]
    /\ UNCHANGED <<icc, made, codecVars, curveVars, rgbVars>>

\* made.fromXyz(xyz).  The calls are those for which the model has the value
\* of every curve's inverse at every linear channel.
IccFromXyz ==
  \E xyz \in IccXyzSamples :
    LET args == IccRgbProfile_fromXyzCurveArgs(made, xyz) IN
    /\ made.kind = "profile"
    /\ \A i, j \in 1..3 : ExactInverse(made.trc[i], args[j])
    /\ iccCall' = [fn |-> "fromXyz", input |-> xyz, args |-> args,
                   ret |-> IccRgbProfile_fromXyz(made, xyz)]
    /\ UNCHANGED <<icc, made, codecVars, curveVars, rgbVars>>

IccUseNext == IccToXyz \/ IccFromXyz

SpecIccUse == IccUseInit /\ [][IccUseNext]_vars

-----------------------------------------------------------------------------
(* Claims about the methods of the ICC-derived RGB profile.                *)

\* C14: fromXyz gives each channel the inverse of that channel's own curve
\* (trc[0] for r, trc[1] for g, trc[2] for b), as toXyz gives each channel
\* its own curve.
C14_ChannelOwnCurve ==
  /\ iccCall.fn = "toXyz" =>
       iccCall.ret = matMulMV(made.xyzMatrix,
                              apply(made.trc[1], iccCall.input[1]),
                              apply(made.trc[2], iccCall.input[2]),
                              apply(made.trc[3], iccCall.input[3]))
  /\ iccCall.fn = "fromXyz" =>
       LET lin == matMulMV(made.rgbMatrix, iccCall.input.x, iccCall.input.y,
                           iccCall.input.z)
       IN  iccCall.ret = <<applyInverse(made.trc[1], lin.x),
                           applyInverse(made.trc[2], lin.y),
                           applyInverse(made.trc[3], lin.z)>>

\* C18: toXyz and fromXyz of the ICC-derived profile evaluate their curves
\* on arguments in [0, 1] only, so that a table curve is read at an index in
\* 0..n-1 and toXyz returns a defined XYZ value.
C18_IccCurveArgsClamped ==
  iccCall # NoCall =>
    /\ \A i \in 1..3 : In01(iccCall.args[i])
    /\ iccCall.fn = "toXyz" =>
         /\ \A i \in 1..3 :
              IsLut(made.trc[i]) =>
                lutIndex(made.trc[i], iccCall.args[i])
                  \in 0..(Len(made.trc[i].values) - 1)
         /\ IsFinite(iccCall.ret.x) /\ IsFinite(iccCall.ret.y)
         /\ IsFinite(iccCall.ret.z)

-----------------------------------------------------------------------------
(* Further claims about the curve engine.                                  *)

\* C15: for a table of two or more ascending values in [0, 1] and for y in
\* [0, 1], applyInverse returns a value in [0, 1], also where y is above
\* every value of the table.
C15_InverseWithinUnitInterval ==
  (/\ inverted # NoCall
   /\ IsLut(curveObj)
   /\ Len(curveObj.values) >= 2
   /\ NonDecreasing(curveObj.values)
   /\ \A i \in 1..Len(curveObj.values) : In01(curveObj.values[i])
   /\ In01(inverted.y))
    => In01(inverted.ret)

-----------------------------------------------------------------------------
(* Further claims about curveOf.                                           *)

\* C16: every curve that curveOf builds from curv data keeps the invariant
\* of curves: a gamma curve has gamma > 0, also for the one sample 0x0000,
\* and a table has two or more values, all in [0, 1].
C16_CurveOfKeepsInvariant ==
  \A slot \in TrcSlots :
    FromCurv(slot) =>
      LET curve == made.trc[TrcIndex[slot]]
      IN  /\ curve.type = "gamma" => RLt(RInt(0), curve.gamma)
          /\ curve.type = "lut" =>
               /\ Len(curve.values) >= 2
               /\ \A i \in 1..Len(curve.values) : In01(curve.values[i])

-----------------------------------------------------------------------------
(* Two RgbProfile instances in use together: each is the receiver of       *)
(* toXyz and fromXyz, and the source or the target of to.  No method of    *)
(* the class assigns to a field of this or of its argument, so every call  *)
(* leaves both instances as they are.                                      *)

SharedInfoSamples ==
  { info \in RgbProfileInfoSamples :
      \/ /\ info.primaries.r.chromaticity = Chroma(Rat(3, 5), Rat(3, 10))
         /\ info.whitePoint.luminance = RInt(80)
      \/ /\ info.primaries.r.chromaticity = Chroma(Rat(2, 3), Rat(1, 3))
         /\ info.whitePoint.luminance = RInt(48) }

SharedColorSamples ==
  { [r |-> Rat(1, 4), g |-> Rat(1, 4), b |-> Rat(1, 4)],
    [r |-> RInt(1), g |-> RInt(1), b |-> RInt(1)],
    [r |-> Rat(3, 2), g |-> RInt(1), b |-> Rat(-1, 2)] }

SharedXyzSamples ==
  { [x |-> Rat(1, 4), y |-> Rat(1, 4), z |-> Rat(1, 4)],
    [x |-> RInt(30), y |-> RInt(-1), z |-> Rat(1, 4)] }

SharedProfiles == {RgbProfile(info) : info \in SharedInfoSamples}

SharedInit ==
  /\ \E p, q \in SharedProfiles : profile = p /\ other = q
  /\ rgbCall = NoCall
  /\ CodecIdle
  /\ CurveIdle
  /\ IccIdle

Receivers == {"profile", "other"}
Receiver(on) == IF on = "profile" THEN profile ELSE other
Argument(on) == IF on = "profile" THEN other ELSE profile

ExactToXyz(this, color) ==
  \A ch \in {"r", "g", "b"} : ExactInverse(Trc(this)[ch], toXyzCurveArgs(color)[ch])

\* x ** gamma fits the integers of the model
FitsApply(c, x) ==
  (c.type = "gamma" /\ IsFinite(x)) =>
    /\ PowCap(Abs(x[1]), c.gamma[1], 1000000000) <= 1000000000
    /\ PowCap(x[2], c.gamma[1], 1000000000) <= 1000000000

ExactFromXyz(this, xyz, hdr) ==
  \A ch \in {"r", "g", "b"} :
    /\ ExactApply(Trc(this)[ch], fromXyzCurveArgs(this, xyz, hdr)[ch])
    /\ FitsApply(Trc(this)[ch], fromXyzCurveArgs(this, xyz, hdr)[ch])

\* A to that takes over the matrices of its target.
To_TakingTargetMatrices ==
  \E on \in Receivers, color \in SharedColorSamples, hdr \in BOOLEAN :
    /\ ExactToXyz(Receiver(on), color)
    /\ ExactFromXyz(Argument(on), toXyz(Receiver(on), color, hdr), hdr)
    /\ rgbCall' = [fn |-> "to", on |-> on, hdr |-> hdr, input |-> color,
                   ret |-> to(Receiver(on), Argument(on), color, hdr)]
    /\ profile' = [profile EXCEPT !.conversion = other.conversion]
    /\ UNCHANGED <<other, codecVars, curveVars, iccVars>>

\* receiver.toXyz(color, hdr)
SharedToXyz ==
  \E on \in Receivers, color \in SharedColorSamples, hdr \in BOOLEAN :
    /\ ExactToXyz(Receiver(on), color)
    /\ rgbCall' = [fn |-> "toXyz", on |-> on, hdr |-> hdr, input |-> color,
                   ret |-> toXyz(Receiver(on), color, hdr)]
    /\ UNCHANGED <<profile, other, codecVars, curveVars, iccVars>>

\* receiver.fromXyz(xyz, hdr)
SharedFromXyz ==
  \E on \in Receivers, xyz \in SharedXyzSamples, hdr \in BOOLEAN :
    /\ ExactFromXyz(Receiver(on), xyz, hdr)
    /\ rgbCall' = [fn |-> "fromXyz", on |-> on, hdr |-> hdr, input |-> xyz,
                   ret |-> fromXyz(Receiver(on), xyz, hdr)]
    /\ UNCHANGED <<profile, other, codecVars, curveVars, iccVars>>

\* receiver.to(argument, color, hdr)
To ==
  \E on \in Receivers, color \in SharedColorSamples, hdr \in BOOLEAN :
    /\ ExactToXyz(Receiver(on), color)
    /\ ExactFromXyz(Argument(on), toXyz(Receiver(on), color, hdr), hdr)
    /\ rgbCall' = [fn |-> "to", on |-> on, hdr |-> hdr, input |-> color,
                   ret |-> to(Receiver(on), Argument(on), color, hdr)]
    /\ UNCHANGED <<profile, other, codecVars, curveVars, iccVars>>

SharedNext == SharedToXyz \/ SharedFromXyz \/ To

SpecRgbShared == SharedInit /\ [][SharedNext]_vars

-----------------------------------------------------------------------------
(* Claim about the RgbProfile instances.                                   *)

\* The cached matrices of an instance are those of its description.
MatricesCurrent(this) ==
  this.conversion =
    calcConversionInfo(this.serializable.primaries.r.chromaticity,
                       this.serializable.primaries.g.chromaticity,
                       this.serializable.primaries.b.chromaticity,
                       this.serializable.whitePoint)

\* C19: through every sequence of calls of toXyz, fromXyz and to, with an
\* instance as source or as target, the description and the cached matrices
\* of every instance stay as they are, and the cached matrices are
\* calcConversionInfo of the instance's primaries and white point.
C19_ProfilesUnchanged ==
  [][/\ MatricesCurrent(profile)
     /\ MatricesCurrent(other)
     /\ profile' = profile
     /\ other' = other]_vars

\* C19 witness: after a call of to between two different instances, with the
\* first one as the target.
C19_Witness ==
  /\ rgbCall.fn = "to"
  /\ rgbCall.on = "other"
  /\ profile # other
  /\ MatricesCurrent(profile)

=============================================================================
